---------------------------- MODULE Spec2Model ----------------------------
(***************************************************************************)
(* A model of toy.py, the Python translation of the Kaleidoscope lexer,    *)
(* recursive-descent parser and top-level driver.                          *)
(*                                                                         *)
(* Characters are one-character strings; the end of the character source   *)
(* is the empty string, as sys.stdin.read(1) returns it.  A token is a     *)
(* record: [int |-> n] for the negative codes of the Token table and       *)
(* [chr |-> c] for a character returned as itself (a Python str).          *)
(* An uncaught Python exception or a loop that cannot exit is recorded in  *)
(* the field st of the machine record and ends the process.                *)
(***************************************************************************)
EXTENDS Integers, Sequences, FiniteSets, TLC

VARIABLES
  input,          \* the characters the character source will deliver
  nread,          \* number of getchar() calls made so far
  LastChar,       \* toy.py global LastChar
  IdentifierStr,  \* toy.py global IdentifierStr
  NumVal,         \* toy.py global NumVal
  CurTok,         \* toy.py global CurTok
  BinopPrecedence,\* toy.py global BinopPrecedence
  stderr,         \* lines written to sys.stderr, in order
  pc,             \* where the process is: "main", "loop", "done", "lex",
                  \* or the name of what ended it
  toks,           \* history: every token gettok handed to getNextToken
  errs,           \* history: every call of error(), with the tokens read by then
  last            \* history: what the last Handle* routine observed

vars == <<input, nread, LastChar, IdentifierStr, NumVal, CurTok,
          BinopPrecedence, stderr, pc, toks, errs, last>>

-----------------------------------------------------------------------------
(* Bounds of the model *)

MaxLexemes == 4
MaxChars == 4
MaxEofCalls == 2
MaxArgs == 3
MaxParams == 2

-----------------------------------------------------------------------------
(* Lexer *)

IntTok(n) == [int |-> n]
ChrTok(c) == [chr |-> c]

Token == [tok_eof |-> IntTok(-1),
          tok_def |-> IntTok(-2), tok_extern |-> IntTok(-3),
          tok_identifier |-> IntTok(-4), tok_number |-> IntTok(-5)]

Whitespace == {" ", "\t", "\n", "\r", "\f"}

Letters == {"a", "b", "c", "d", "e", "f", "g", "h", "i", "j", "k", "l", "m",
            "n", "o", "p", "q", "r", "s", "t", "u", "v", "w", "x", "y", "z",
            "A", "B", "C", "D", "E", "F", "G", "H", "I", "J", "K", "L", "M",
            "N", "O", "P", "Q", "R", "S", "T", "U", "V", "W", "X", "Y", "Z"}

Digits == {"0", "1", "2", "3", "4", "5", "6", "7", "8", "9"}

DigitVal(c) == CHOOSE n \in 0..9 : <<"0", "1", "2", "3", "4", "5", "6", "7", "8", "9">>[n + 1] = c

\* An exception propagating out of the process, or a loop that never exits.
Raise(m, what) == [m EXCEPT !.st = what]

\* sys.stdin.read(1): the next character, "" once the source is exhausted.
getchar(m) ==
  [m EXCEPT !.LastChar = IF m.nread < Len(input) THEN input[m.nread + 1] ELSE "",
            !.nread = m.nread + 1]

\* float(NumStr) for NumStr in [0-9.]+ : a ValueError unless the string has
\* at most one '.' and at least one digit; otherwise the decimal value,
\* kept as mant / 10^exp with exp minimal.
RECURSIVE Normalize(_, _)
Normalize(mant, exp) ==
  IF exp > 0 /\ mant % 10 = 0 THEN Normalize(mant \div 10, exp - 1)
  ELSE [mant |-> mant, exp |-> exp]

RECURSIVE DigitsValue(_)
DigitsValue(s) ==
  IF s = <<>> THEN 0
  ELSE 10 * DigitsValue(SubSeq(s, 1, Len(s) - 1)) + DigitVal(s[Len(s)])

FloatValid(NumStr) ==
  /\ Cardinality({i \in DOMAIN NumStr : NumStr[i] = "."}) <= 1
  /\ \E i \in DOMAIN NumStr : NumStr[i] \in Digits

float(NumStr) ==
  LET dots == {i \in DOMAIN NumStr : NumStr[i] = "."}
      dot == CHOOSE i \in dots : TRUE
      ds == SelectSeq(NumStr, LAMBDA c : c # ".")
  IN  Normalize(DigitsValue(ds), IF dots = {} THEN 0 ELSE Len(NumStr) - dot)

Ret(m, tok) == [m |-> m, tok |-> tok]

\* lines 36-38: skip any whitespace.
RECURSIVE gettok_whitespace(_)
gettok_whitespace(m) ==
  IF m.LastChar \in Whitespace THEN gettok_whitespace(getchar(m)) ELSE m

\* lines 43-45: the rest of an identifier.
RECURSIVE gettok_identifier(_)
gettok_identifier_lettersOnly(m) ==
  IF m.LastChar \in Letters
  THEN gettok_identifier(getchar([m EXCEPT !.IdentifierStr = @ \o m.LastChar]))
  ELSE m
gettok_identifier(m) ==
  IF m.LastChar \in Letters \cup Digits
  THEN gettok_identifier(getchar([m EXCEPT !.IdentifierStr = @ \o m.LastChar]))
  ELSE m

\* lines 53-57: the characters of a number; NumStr comes back with the machine.
RECURSIVE gettok_number(_, _)
gettok_number(m, NumStr) ==
  LET s == Append(NumStr, m.LastChar)
      m1 == getchar(m)
  IN  IF ~(m1.LastChar \in Digits \/ m1.LastChar = ".") THEN [m |-> m1, NumStr |-> s]
      ELSE gettok_number(m1, s)

\* lines 64-67: a comment.  The loop leaves only on '\n' or '\r': the test
\* LastChar != None holds of every string, so once the source is exhausted
\* getchar() returns '' for ever and the loop never exits.
RECURSIVE gettok_comment(_)
gettok_comment(m) ==
  LET m1 == getchar(m)
  IN  IF ~(m1.LastChar # "\n" /\ m1.LastChar # "\r") THEN m1
      ELSE IF m1.LastChar = "" THEN Raise(m1, "hang")
      ELSE gettok_comment(m1)

\* lines 72-79: the end of the source, which is not eaten, or else the
\* character as itself.
gettok_rest_eatsEof(m) == Ret(getchar(m), IF m.LastChar = "" THEN Token.tok_eof ELSE ChrTok(m.LastChar))
gettok_rest(m) ==
  IF m.LastChar = "" THEN Ret(m, Token.tok_eof)
  ELSE Ret(getchar(m), ChrTok(m.LastChar))

RECURSIVE gettok(_)
gettok(m) ==
  LET m1 == gettok_whitespace(m)
  IN
  IF m1.LastChar \in Letters THEN
    LET m2 == gettok_identifier(getchar([m1 EXCEPT !.IdentifierStr = m1.LastChar]))
    IN  IF m2.IdentifierStr = "def" THEN Ret(m2, Token.tok_def)
        ELSE IF m2.IdentifierStr = "extern" THEN Ret(m2, Token.tok_extern)
        ELSE Ret(m2, Token.tok_identifier)
  ELSE IF m1.LastChar \in Digits \/ m1.LastChar = "." THEN
    LET r == gettok_number(m1, <<>>)
    IN  IF FloatValid(r.NumStr)
        THEN Ret([r.m EXCEPT !.NumVal = float(r.NumStr)], Token.tok_number)
        ELSE Ret(Raise(r.m, "ValueError"), Token.tok_number)
  ELSE IF m1.LastChar = "#" THEN
    LET m2 == gettok_comment(m1)
    IN  IF m2.st # "ok" THEN Ret(m2, Token.tok_eof)
        ELSE IF m2.LastChar # "" THEN gettok(m2)
        ELSE gettok_rest(m2)
  ELSE gettok_rest(m1)

-----------------------------------------------------------------------------
(* Parser *)

\* lines 134-137.  The token log is history only.
getNextToken(m) ==
  LET r == gettok(m)
  IN  IF r.m.st # "ok" THEN r.m
      ELSE [r.m EXCEPT !.CurTok = r.tok,
                       !.toks = Append(@, [tok |-> r.tok,
                                           IdentifierStr |-> r.m.IdentifierStr,
                                           NumVal |-> r.m.NumVal,
                                           nread |-> r.m.nread])]


\* The values a parse function returns: an AST node, None, or the int 0.
None == [type |-> "None"]
Zero == [type |-> "int0"]
NumberExprAST(val) == [type |-> "NumberExprAST", val |-> val]
VariableExprAST(name) == [type |-> "VariableExprAST", name |-> name]
BinaryExprAST(op, lhs, rhs) == [type |-> "BinaryExprAST", op |-> op, lhs |-> lhs, rhs |-> rhs]
CallExprAST(callee, args) == [type |-> "CallExprAST", callee |-> callee, args |-> args]
PrototypeAST(name, args) == [type |-> "PrototypeAST", name |-> name, args |-> args]
FunctionAST(proto, body) == [type |-> "FunctionAST", proto |-> proto, body |-> body]

\* Python truth of a returned value: None and 0 are false, an object is true.
Truthy(v) == v # None /\ v # Zero

\* A parse function's outcome: the machine it leaves and the value it returns.
\* When m.st is not "ok" an exception is propagating and v means nothing.
R(m, v) == [m |-> m, v |-> v]

\* lines 144-152.
GetTokPrecedence_anyChar(m) ==
  IF "chr" \notin DOMAIN m.CurTok THEN -1
  ELSE IF m.CurTok.chr \in DOMAIN BinopPrecedence
    THEN BinopPrecedence[m.CurTok.chr] ELSE 1
GetTokPrecedence(m) ==
  IF "chr" \notin DOMAIN m.CurTok THEN -1
  ELSE LET TokPrec == IF m.CurTok.chr \in DOMAIN BinopPrecedence
                      THEN BinopPrecedence[m.CurTok.chr] ELSE -1
       IN  IF TokPrec <= 0 THEN -1 ELSE TokPrec

\* lines 155-165: error, errorP and errorF all print and return None.
error(m, string) ==
  R([m EXCEPT !.stderr = Append(@, "Error: " \o string),
              !.errs = Append(@, [msg |-> string, ntok |-> Len(m.toks)])],
    None)

errorP(m, string) == error(m, string)

errorF(m, string) == error(m, string)

\* An exception raised in a call leaves through every caller: what follows
\* a call runs only when the call returned.  Then is for a call that yields
\* a machine (getNextToken), Bind for one that yields an outcome R(m, v).
Then(m1, K(_)) == IF m1.st # "ok" THEN R(m1, None) ELSE K(m1)
Bind(r, K(_)) == IF r.m.st # "ok" THEN R(r.m, None) ELSE K(r)

\* lines 199-202.
ParseNumberExpr(m) ==
  R(getNextToken(m), NumberExprAST(m.NumVal))

RECURSIVE ParseExpression(_)
RECURSIVE ParseBinOpRHS(_, _, _)
RECURSIVE ParseIdentifierExpr_args(_, _, _)

\* lines 193-196: eat the ')' and build the call.
ParseIdentifierExpr_call_keepParen(IdName, args, m) ==
  R(m, CallExprAST(IdName, args))
ParseIdentifierExpr_call(IdName, args, m) ==
  R(getNextToken(m), CallExprAST(IdName, args))

\* lines 182-191: one turn of the argument loop, then the rest of it.
ParseIdentifierExpr_args(IdName, args, m) ==
  Bind(ParseExpression(m), LAMBDA arg :
    IF ~Truthy(arg.v) THEN R(arg.m, None)
    ELSE IF arg.m.CurTok = ChrTok(")")
      THEN ParseIdentifierExpr_call(IdName, Append(args, arg.v), arg.m)
    ELSE IF arg.m.CurTok # ChrTok(",")
      THEN error(arg.m, "Expected ')' or ',' in argument list")
    ELSE Then(getNextToken(arg.m), LAMBDA m1 :
           ParseIdentifierExpr_args(IdName, Append(args, arg.v), m1)))

\* lines 170-181.
ParseIdentifierExpr(m) ==
  Then(getNextToken(m), LAMBDA m1 :
    IF m1.CurTok # ChrTok("(") THEN R(m1, VariableExprAST(m.IdentifierStr))
    ELSE Then(getNextToken(m1), LAMBDA m2 :
           IF m2.CurTok # ChrTok(")")
           THEN ParseIdentifierExpr_args(m.IdentifierStr, <<>>, m2)
           ELSE ParseIdentifierExpr_call(m.IdentifierStr, <<>>, m2)))

\* lines 206-209.  The result is bound to v and then tested as V, a name
\* that is bound nowhere: line 209 raises NameError whenever ParseExpression
\* returns, and lines 211-214 are never reached.
ParseParenExpr(m) ==
  Then(getNextToken(m), LAMBDA m1 :
    Bind(ParseExpression(m1), LAMBDA v :
      R(Raise(v.m, "NameError"), None)))

\* lines 220-228.
ParsePrimary(m) ==
  IF m.CurTok = Token.tok_identifier THEN ParseIdentifierExpr(m)
  ELSE IF m.CurTok = Token.tok_number THEN ParseNumberExpr(m)
  ELSE IF m.CurTok = ChrTok("(") THEN ParseParenExpr(m)
  ELSE error(m, "unknown token when expecting an expression")

\* line 255: the test made of what the inner ParseBinOpRHS returned.
IsZero(RHS) == RHS = Zero

\* line 253: does BinOp bind less tightly than the operator after RHS?
PendingBindsTighter_never(TokPrec, NextPrec) == FALSE
PendingBindsTighter(TokPrec, NextPrec) == TokPrec < NextPrec

\* lines 232-259: one turn of the loop, then the rest of it.
ParseBinOpRHS_once(ExprPrec, LHS, m) ==
  IF GetTokPrecedence(m) < ExprPrec THEN R(m, LHS)
  ELSE Then(getNextToken(m), LAMBDA m1 :
    Bind(ParsePrimary(m1), LAMBDA RHS :
      IF ~Truthy(RHS.v) THEN R(RHS.m, None)
      ELSE IF PendingBindsTighter(GetTokPrecedence(m), GetTokPrecedence(RHS.m))
        THEN Bind(ParseBinOpRHS(GetTokPrecedence(m) + 1, RHS.v, RHS.m), LAMBDA RHS2 :
               IF IsZero(RHS2.v) THEN R(RHS2.m, Zero)
               ELSE R(RHS2.m, BinaryExprAST(m.CurTok, LHS, RHS2.v)))
      ELSE R(RHS.m, BinaryExprAST(m.CurTok, LHS, RHS.v))))
ParseBinOpRHS(ExprPrec, LHS, m) ==
  IF GetTokPrecedence(m) < ExprPrec THEN R(m, LHS)
  ELSE Then(getNextToken(m), LAMBDA m1 :
    Bind(ParsePrimary(m1), LAMBDA RHS :
      IF ~Truthy(RHS.v) THEN R(RHS.m, None)
      ELSE IF PendingBindsTighter(GetTokPrecedence(m), GetTokPrecedence(RHS.m))
        THEN Bind(ParseBinOpRHS(GetTokPrecedence(m) + 1, RHS.v, RHS.m), LAMBDA RHS2 :
               IF IsZero(RHS2.v) THEN R(RHS2.m, Zero)
               ELSE ParseBinOpRHS(ExprPrec, BinaryExprAST(m.CurTok, LHS, RHS2.v), RHS2.m))
      ELSE ParseBinOpRHS(ExprPrec, BinaryExprAST(m.CurTok, LHS, RHS.v), RHS.m)))

\* lines 264-268.
ParseExpression(m) ==
  Bind(ParsePrimary(m), LAMBDA LHS :
    IF ~Truthy(LHS.v) THEN R(LHS.m, Zero)
    ELSE ParseBinOpRHS(0, LHS.v, LHS.m))

\* lines 285-291: after the parameter loop.
ParsePrototype_end_keepParen(FnName, ArgNames, m) ==
  IF m.CurTok # ChrTok(")") THEN errorP(m, "Expected ')' in prototype")
  ELSE R(m, PrototypeAST(FnName, ArgNames))
ParsePrototype_end_lateName(FnName, ArgNames, m) ==
  IF m.CurTok # ChrTok(")") THEN errorP(m, "Expected ')' in prototype")
  ELSE R(getNextToken(m), PrototypeAST(m.IdentifierStr, ArgNames))
ParsePrototype_end(FnName, ArgNames, m) ==
  IF m.CurTok # ChrTok(")") THEN errorP(m, "Expected ')' in prototype")
  ELSE R(getNextToken(m), PrototypeAST(FnName, ArgNames))

\* lines 282-284: the parameter loop, which leaves with the first token that
\* is no identifier as the current one.
RECURSIVE ParsePrototype_args(_, _, _)
ParsePrototype_args(FnName, ArgNames, m) ==
  Then(getNextToken(m), LAMBDA m1 :
    IF m1.CurTok = Token.tok_identifier
      THEN ParsePrototype_args(FnName, Append(ArgNames, m1.IdentifierStr), m1)
    ELSE ParsePrototype_end(FnName, ArgNames, m1))

\* lines 272-282.
ParsePrototype(m) ==
  IF m.CurTok # Token.tok_identifier
    THEN errorP(m, "Expected function name in prototype")
  ELSE Then(getNextToken(m), LAMBDA m1 :
    IF m1.CurTok # ChrTok("(") THEN errorP(m1, "Expected '(' in prototype")
    ELSE ParsePrototype_args(m.IdentifierStr, <<>>, m1))

\* lines 295-303.
ParseDefinition(m) ==
  Then(getNextToken(m), LAMBDA m1 :
    Bind(ParsePrototype(m1), LAMBDA Proto :
      IF ~Truthy(Proto.v) THEN R(Proto.m, None)
      ELSE Bind(ParseExpression(Proto.m), LAMBDA E :
             IF Truthy(E.v) THEN R(E.m, FunctionAST(Proto.v, E.v))
             ELSE R(E.m, None))))

\* lines 306-312.
ParseTopLevelExpr(m) ==
  Bind(ParseExpression(m), LAMBDA E :
    IF Truthy(E.v) THEN R(E.m, FunctionAST(PrototypeAST("", <<>>), E.v))
    ELSE R(E.m, None))

\* lines 315-317.
ParseExtern(m) ==
  Then(getNextToken(m), LAMBDA m1 : ParsePrototype(m1))

-----------------------------------------------------------------------------
(* The process *)

\* The globals as one record, and back.
Machine ==
  [nread |-> nread, LastChar |-> LastChar, IdentifierStr |-> IdentifierStr,
   NumVal |-> NumVal, CurTok |-> CurTok, stderr |-> stderr, toks |-> toks,
   errs |-> errs, st |-> "ok"]

Store(m, nextpc) ==
  /\ nread' = m.nread
  /\ LastChar' = m.LastChar
  /\ IdentifierStr' = m.IdentifierStr
  /\ NumVal' = m.NumVal
  /\ CurTok' = m.CurTok
  /\ stderr' = m.stderr
  /\ toks' = m.toks
  /\ errs' = m.errs
  /\ pc' = IF m.st = "ok" THEN nextpc ELSE m.st

NoForm == [kind |-> "none"]

\* What a Handle* routine saw: the form, what the parse returned (returned
\* is FALSE when an exception left the parse), and how much had been read and
\* written when the parse began and when it returned.
Form(kind, m0, r) ==
  [kind |-> kind,
   returned |-> r.m.st = "ok",
   v |-> IF r.m.st = "ok" THEN r.v ELSE None,
   CurTok |-> r.m.CurTok,
   toks0 |-> Len(m0.toks), toks1 |-> Len(r.m.toks),
   errs0 |-> Len(m0.errs), errs1 |-> Len(r.m.errs),
   stderr0 |-> Len(m0.stderr), stderr1 |-> Len(r.m.stderr)]

print(m, string) == [m EXCEPT !.stderr = Append(@, string)]

\* lines 348-349: the prompt of one turn of MainLoop.
Prompt == print(Machine, "ready> ")

\* lines 324-328, 331-335, 339-343: what a Handle* routine does with the
\* outcome r of its parse, begun in machine m0.
Handle_noSkip(kind, notice, m0, r) ==
  /\ Store(IF r.m.st # "ok" THEN r.m
           ELSE IF Truthy(r.v) THEN print(r.m, notice)
           ELSE r.m,
           "loop")
  /\ last' = Form(kind, m0, r)
Handle(kind, notice, m0, r) ==
  /\ Store(IF r.m.st # "ok" THEN r.m
           ELSE IF Truthy(r.v) THEN print(r.m, notice)
           ELSE getNextToken(r.m),
           "loop")
  /\ last' = Form(kind, m0, r)

\* lines 365-379, up to the call of MainLoop.
Main ==
  /\ pc = "main"
  /\ BinopPrecedence' = ("<" :> 10) @@ ("+" :> 20) @@ ("-" :> 20) @@ ("*" :> 40)
  /\ Store(getNextToken(Prompt), "loop")
  /\ UNCHANGED <<input, last>>

\* lines 350-351.
MainLoopReturn ==
  /\ pc = "loop"
  /\ CurTok = Token.tok_eof
  /\ Store(Prompt, "done")
  /\ UNCHANGED <<input, BinopPrecedence, last>>

\* lines 352-353.
MainLoopSemicolon ==
  /\ pc = "loop"
  /\ CurTok # Token.tok_eof
  /\ CurTok = ChrTok(";")
  /\ Store(getNextToken(Prompt), "loop")
  /\ UNCHANGED <<input, BinopPrecedence, last>>

\* lines 354-355 and 323-328.
HandleDefinition ==
  /\ pc = "loop"
  /\ CurTok \notin {Token.tok_eof, ChrTok(";")}
  /\ CurTok = Token.tok_def
  /\ Handle("def", "Parsed a function definition.", Prompt, ParseDefinition(Prompt))
  /\ UNCHANGED <<input, BinopPrecedence>>

\* lines 356-357 and 330-335.
HandleExtern ==
  /\ pc = "loop"
  /\ CurTok \notin {Token.tok_eof, ChrTok(";"), Token.tok_def}
  /\ CurTok = Token.tok_extern
  /\ Handle("extern", "Parsed an extern", Prompt, ParseExtern(Prompt))
  /\ UNCHANGED <<input, BinopPrecedence>>

\* lines 358-359 and 337-343.
HandleTopLevelExpression ==
  /\ pc = "loop"
  /\ CurTok \notin {Token.tok_eof, ChrTok(";"), Token.tok_def, Token.tok_extern}
  /\ Handle("expr", "Parsed a top-level expr", Prompt, ParseTopLevelExpr(Prompt))
  /\ UNCHANGED <<input, BinopPrecedence>>

-----------------------------------------------------------------------------
(* Inputs *)

RECURSIVE Flatten(_)
Flatten(ss) == IF ss = <<>> THEN <<>> ELSE Head(ss) \o Flatten(Tail(ss))

SeqsUpTo(S, n) == UNION {[1..k -> S] : k \in 0..n}

\* Every run of at most MaxLexemes of these.
Lexemes ==
  {<<"1">>, <<"x">>, <<"+">>, <<"*">>, <<"/">>, <<"(">>, <<")">>, <<",">>, <<";">>,
   <<".">>, <<"#">>, <<"d", "e", "f", " ">>, <<"e", "x", "t", "e", "r", "n", " ">>}

ShortInputs == {Flatten(ls) : ls \in SeqsUpTo(Lexemes, MaxLexemes)}

\* a op1 b op2 c
Operands == {<<"1">>, <<"x">>, <<"2", ".", "5">>}
Operators == {"<", "+", "-", "*", "/"}

TripleInputs ==
  {a \o <<op1>> \o b \o <<op2>> \o c :
     a \in Operands, b \in Operands, c \in Operands,
     op1 \in Operators, op2 \in Operators}

\* f ( argument separator argument separator ... )
ArgExprs == {<<"1">>, <<"x">>, <<"y", "*", "2">>}
Separators == {<<",">>, <<" ">>}
ArgItems == {a \o s : a \in ArgExprs, s \in Separators}

CallTails == {<<>>, <<";">>}

CallInputs ==
  {<<"f", "(">> \o Flatten(items) \o <<")">> \o t :
     items \in SeqsUpTo(ArgItems, MaxArgs), t \in CallTails}

\* def/extern f ( parameter parameter ... ) body
ParamItems == {<<"x", " ">>, <<"y", " ">>, <<",", " ">>, <<"1", " ">>}
Heads == {<<"d", "e", "f", " ">>, <<"e", "x", "t", "e", "r", "n", " ">>}
Bodies == {<<>>, <<"1">>, <<"x", "+", "y">>, <<"+">>}

ProtoInputs ==
  {h \o <<"f", "(">> \o Flatten(ps) \o <<")">> \o b :
     h \in Heads, ps \in SeqsUpTo(ParamItems, MaxParams), b \in Bodies}

\* ( a ) and ( a op1 b ) op2 c
ParenInputs ==
  {<<"(">> \o a \o <<")">> : a \in Operands}
  \cup {<<"(">> \o a \o <<op1>> \o b \o <<")">> \o <<op2>> \o c :
          a \in Operands, b \in Operands, c \in Operands,
          op1 \in Operators, op2 \in Operators}

\* 1 op1 x op2 with the operand after op2 missing, alone or as an argument
RecoveryTails ==
  {<<>>, <<";">>, <<"+", "2">>, <<"*", "2", ";">>, <<"+", "*">>, <<")">>, <<")", ";">>}

RecoveryInputs ==
  {p \o <<"1", op1, "x", op2>> \o t :
     p \in {<<>>, <<"f", "(">>}, op1 \in Operators, op2 \in Operators,
     t \in RecoveryTails}

\* an operand followed by a token that is no key of the precedence table
NoBinopTails ==
  {<<>>, <<"/">>, <<"/", "x">>, <<" ", "x">>, <<" ", "1">>, <<" ", "d", "e", "f", " ">>,
   <<" ", "e", "x", "t", "e", "r", "n", " ">>, <<",">>, <<")">>, <<";">>}

NoBinopInputs == {a \o t : a \in Operands, t \in NoBinopTails}

Inputs ==
  ShortInputs \cup TripleInputs \cup CallInputs \cup ProtoInputs \cup ParenInputs
  \cup RecoveryInputs \cup NoBinopInputs

\* Character inputs of the lexer specification.
LexAlphabet == {" ", "\n", "#", "a", "1", ".", "+"}

\* A word, then what ends it.
Words ==
  {[s |-> <<"d", "e", "f">>, w |-> "def"],
   [s |-> <<"e", "x", "t", "e", "r", "n">>, w |-> "extern"],
   [s |-> <<"d", "e", "f", "i", "n", "e">>, w |-> "define"],
   [s |-> <<"d", "e", "f", "1">>, w |-> "def1"],
   [s |-> <<"e", "x", "t", "e", "r", "n", "s">>, w |-> "externs"],
   [s |-> <<"d", "e">>, w |-> "de"],
   [s |-> <<"e", "x", "t", "e", "r">>, w |-> "exter"],
   [s |-> <<"D", "e", "f">>, w |-> "Def"],
   [s |-> <<"d", "3", "f">>, w |-> "d3f"],
   [s |-> <<"x">>, w |-> "x"]}

WordTails ==
  {<<>>, <<" ">>, <<"\n">>, <<"+">>, <<"(">>, <<"_">>,
   <<" ", "x">>, <<"+", "x">>, <<"(", "1">>, <<"_", "x">>}

WordInputs == {wd.s \o t : wd \in Words, t \in WordTails}

LexInputs == SeqsUpTo(LexAlphabet, MaxChars) \cup WordInputs

-----------------------------------------------------------------------------
(* Specifications *)

\* The globals as the module body of toy.py leaves them.
InitGlobals ==
  /\ nread = 0
  /\ LastChar = " "
  /\ IdentifierStr = ""
  /\ NumVal = [mant |-> 0, exp |-> 0]
  /\ CurTok = IntTok(0)
  /\ BinopPrecedence = <<>>
  /\ stderr = <<>>
  /\ toks = <<>>
  /\ errs = <<>>
  /\ last = NoForm

Init ==
  /\ input \in Inputs
  /\ InitGlobals
  /\ pc = "main"

Next ==
  \/ Main
  \/ MainLoopReturn
  \/ MainLoopSemicolon
  \/ HandleDefinition
  \/ HandleExtern
  \/ HandleTopLevelExpression

Spec == Init /\ [][Next]_vars

\* The lexer alone: a caller that only asks for tokens.
LexInit ==
  /\ input \in LexInputs
  /\ InitGlobals
  /\ pc = "lex"

EofCalls == Cardinality({i \in DOMAIN toks : toks[i].tok = Token.tok_eof})

\* One call of getNextToken; the caller stops asking after MaxEofCalls
\* end-of-input tokens.
LexStep ==
  /\ pc = "lex"
  /\ EofCalls < MaxEofCalls
  /\ Store(getNextToken(Machine), "lex")
  /\ UNCHANGED <<input, BinopPrecedence, last>>

LexNext == LexStep

LexSpec == LexInit /\ [][LexNext]_vars

-----------------------------------------------------------------------------
(* What the claims speak of *)

\* The first top-level form has been handled and nothing after it: its
\* parse began with only the primed token read.
FirstForm == last.kind # "none" /\ last.toks0 = 1

\* The trees of the operands and argument expressions of the inputs.
Num(mant, exp) == NumberExprAST([mant |-> mant, exp |-> exp])
Var(name) == VariableExprAST(name)
Bin(op, lhs, rhs) == BinaryExprAST(ChrTok(op), lhs, rhs)
TopLevel(body) == FunctionAST(PrototypeAST("", <<>>), body)

OperandAST(a) ==
  CASE a = <<"1">> -> Num(1, 0)
    [] a = <<"x">> -> Var("x")
    [] a = <<"2", ".", "5">> -> Num(25, 1)

Prec(op) == BinopPrecedence[op]

\* C1: for a parenthesis-free expression a op1 b op2 c with both operators in
\* the precedence table and prec(op2) > prec(op1), ParseExpression returns
\* Binary(op1, a, Binary(op2, b, c)).
C1_TighterOperatorTakesOperand ==
  (FirstForm /\ input \in TripleInputs) =>
    \A a \in Operands, b \in Operands, c \in Operands,
       op1 \in DOMAIN BinopPrecedence, op2 \in DOMAIN BinopPrecedence :
      (input = a \o <<op1>> \o b \o <<op2>> \o c /\ Prec(op2) > Prec(op1)) =>
        /\ last.returned
        /\ last.v = TopLevel(Bin(op1, OperandAST(a),
                                 Bin(op2, OperandAST(b), OperandAST(c))))

C1_Witness ==
  /\ input = <<"1", "+", "x", "*", "2", ".", "5">>
  /\ FirstForm
  /\ last.v = TopLevel(Bin("+", Num(1, 0), Bin("*", Var("x"), Num(25, 1))))
  /\ pc = "done"

\* C2: for a parenthesis-free expression a op1 b op2 c with both operators in
\* the precedence table and prec(op2) <= prec(op1), ParseExpression returns
\* Binary(op2, Binary(op1, a, b), c).
C2_LeftAssociative ==
  (FirstForm /\ input \in TripleInputs) =>
    \A a \in Operands, b \in Operands, c \in Operands,
       op1 \in DOMAIN BinopPrecedence, op2 \in DOMAIN BinopPrecedence :
      (input = a \o <<op1>> \o b \o <<op2>> \o c /\ Prec(op2) <= Prec(op1)) =>
        /\ last.returned
        /\ last.v = TopLevel(Bin(op2, Bin(op1, OperandAST(a), OperandAST(b)),
                                 OperandAST(c)))

C2_Witness ==
  /\ input = <<"1", "-", "x", "+", "2", ".", "5">>
  /\ FirstForm
  /\ last.v = TopLevel(Bin("+", Bin("-", Num(1, 0), Var("x")), Num(25, 1)))
  /\ pc = "done"

\* C3: when a sub-parse inside a top-level form fails, the top-level parse
\* returns the null result, and no parse function returns a node that has a
\* null child.
RECURSIVE HasNullChild(_)
HasNullChild(v) ==
  CASE v.type = "BinaryExprAST" ->
         \/ ~Truthy(v.lhs) \/ ~Truthy(v.rhs)
         \/ HasNullChild(v.lhs) \/ HasNullChild(v.rhs)
    [] v.type = "CallExprAST" ->
         \E i \in DOMAIN v.args : ~Truthy(v.args[i]) \/ HasNullChild(v.args[i])
    [] v.type = "FunctionAST" ->
         \/ ~Truthy(v.proto) \/ ~Truthy(v.body) \/ HasNullChild(v.body)
    [] OTHER -> FALSE

C3_FailurePropagatesAsNull ==
  (last.kind # "none" /\ last.returned) =>
    /\ last.errs1 > last.errs0 => ~Truthy(last.v)
    /\ ~HasNullChild(last.v)

\* C4: when the expression after '(' is not followed by ')', ParseParenExpr
\* reports "expected ')'" and returns the null result.
UnclosedParens == {<<"(", "1">>, <<"(", "x">>, <<"(", "1", "+", "x">>}

C4_UnclosedParenIsReported ==
  (FirstForm /\ input \in UnclosedParens) =>
    /\ last.returned
    /\ ~Truthy(last.v)
    /\ \E i \in DOMAIN errs : errs[i].msg = "expected ')'"

\* C5: on an input made only of whitespace and '#' comments (the last
\* comment possibly ended by the end of the input), gettok returns the
\* end-of-input token, and no other token before it.
RECURSIVE OnlyWhitespaceAndComments(_, _)
OnlyWhitespaceAndComments(s, inComment) ==
  IF s = <<>> THEN TRUE
  ELSE IF Head(s) \in {"\n", "\r"} THEN OnlyWhitespaceAndComments(Tail(s), FALSE)
  ELSE IF inComment THEN OnlyWhitespaceAndComments(Tail(s), TRUE)
  ELSE IF Head(s) = "#" THEN OnlyWhitespaceAndComments(Tail(s), TRUE)
  ELSE Head(s) \in Whitespace /\ OnlyWhitespaceAndComments(Tail(s), FALSE)

C5_WhitespaceAndCommentsLexToEof ==
  OnlyWhitespaceAndComments(input, FALSE) =>
    /\ pc = "lex"
    /\ \A i \in DOMAIN toks : toks[i].tok = Token.tok_eof

\* C6: on every finite input main reaches the end-of-input token and
\* returns; nothing aborts the process or stops the loop before that.
C6_MainLoopRunsToEof == pc \in {"main", "loop", "done"}

\* C7: when a top-level parse returns the null result, the driver prints no
\* success notice and discards exactly one token, the one that was current
\* when the failure was detected, and the main loop resumes at the token
\* after it (the token the lexer returns for the characters that follow).
Notices == {"Parsed a function definition.", "Parsed an extern", "Parsed a top-level expr"}

C7_Step ==
  (/\ pc = "loop"
   /\ CurTok \notin {Token.tok_eof, ChrTok(";")}
   /\ last'.returned
   /\ ~Truthy(last'.v)) =>
    /\ \A i \in (last'.stderr0 + 1)..Len(stderr') : stderr'[i] \notin Notices
    /\ last'.errs1 > last'.errs0
    /\ errs'[last'.errs1].ntok = last'.toks1
    /\ Len(errs') = last'.errs1
    /\ pc' = "loop" =>
         /\ Len(toks') = last'.toks1 + 1
         /\ toks'[last'.toks1].tok = last'.CurTok
         /\ CurTok' = toks'[Len(toks')].tok
    /\ pc' # "loop" =>
         /\ pc' \in {"ValueError", "hang"}
         /\ Len(toks') = last'.toks1

C8_LexerNeverFails ==
  /\ pc # "ValueError"
  /\ \A i \in DOMAIN toks :
       "chr" \in DOMAIN toks[i].tok =>
         /\ toks[i].nread >= 2
         /\ input[toks[i].nread - 1] = toks[i].tok.chr

\* C9: an identifier not followed by '(' yields VariableReference(name) with
\* the following token left unconsumed; identifier '(' e1 ',' ... ',' en ')'
\* yields CallExpression(name, [e1..en]) in source order with the current
\* token just past ')'; an argument followed by a token that is neither ')'
\* nor ',' yields "Expected ')' or ',' in argument list" and a null result.
ArgAST(a) ==
  CASE a = <<"1">> -> Num(1, 0)
    [] a = <<"x">> -> Var("x")
    [] a = <<"y", "*", "2">> -> Bin("*", Var("y"), Num(2, 0))

ArgLists == SeqsUpTo(ArgExprs \X Separators, MaxArgs)

CallText(ps, t) ==
  <<"f", "(">> \o Flatten([i \in DOMAIN ps |-> ps[i][1] \o ps[i][2]]) \o <<")">> \o t

\* Every argument but the last is followed by ','.
CommaSeparated(ps) == \A i \in DOMAIN ps : (ps[i][2] = <<",">>) <=> (i < Len(ps))

\* Some argument is followed by white space and then another argument.
MissingComma(ps) == \E i \in DOMAIN ps : i < Len(ps) /\ ps[i][2] = <<" ">>

TailTok(t) == IF t = <<>> THEN Token.tok_eof ELSE ChrTok(t[1])

NotCalled == {";", ")", ",", "/"}

C9_IdentifierExpr ==
  FirstForm =>
    /\ (Len(input) >= 2 /\ input[1] = "x" /\ input[2] \in NotCalled) =>
         /\ last.returned
         /\ last.v = TopLevel(Var("x"))
         /\ last.CurTok = ChrTok(input[2])
         /\ last.toks1 = 2
    /\ input \in CallInputs =>
         \A ps \in ArgLists, t \in CallTails :
           input = CallText(ps, t) =>
             /\ CommaSeparated(ps) =>
                  /\ last.returned
                  /\ last.v = TopLevel(CallExprAST("f", [i \in DOMAIN ps |-> ArgAST(ps[i][1])]))
                  /\ last.CurTok = TailTok(t)
                  /\ last.errs1 = last.errs0
             /\ MissingComma(ps) =>
                  /\ last.returned
                  /\ last.v = None
                  /\ last.errs1 = last.errs0 + 1
                  /\ errs[last.errs1].msg = "Expected ')' or ',' in argument list"

C9_Witness ==
  /\ input = <<"f", "(", "x", ",", "y", "*", "2", ",", "1", " ", ")", ";">>
  /\ FirstForm
  /\ last.v = TopLevel(CallExprAST("f", <<Var("x"), Bin("*", Var("y"), Num(2, 0)), Num(1, 0)>>))
  /\ last.CurTok = ChrTok(";")
  /\ pc = "done"

\* C10: for name ( id1 ... idn ), ParsePrototype returns
\* Prototype(name, [id1..idn]) in source order with the current token just
\* past ')'; ParseDefinition returns Function(that prototype, body) and
\* ParseExtern the bare Prototype; a token in the list that is neither an
\* identifier nor ')' yields "Expected ')' in prototype" and a null result.
ParamLists == SeqsUpTo(ParamItems, MaxParams)

ProtoText(h, ps, b) == h \o <<"f", "(">> \o Flatten(ps) \o <<")">> \o b

IsParam(p) == p \in {<<"x", " ">>, <<"y", " ">>}

ParamName(p) == IF p = <<"x", " ">> THEN "x" ELSE "y"

ProtoOf(ps) == PrototypeAST("f", [i \in DOMAIN ps |-> ParamName(ps[i])])

BodyTok(b) ==
  CASE b = <<>> -> Token.tok_eof
    [] b = <<"1">> -> Token.tok_number
    [] b = <<"x", "+", "y">> -> Token.tok_identifier
    [] b = <<"+">> -> ChrTok("+")

BodyAST(b) == IF b = <<"1">> THEN Num(1, 0) ELSE Bin("+", Var("x"), Var("y"))

C10_Prototype ==
  (FirstForm /\ input \in ProtoInputs) =>
    \A h \in Heads, ps \in ParamLists, b \in Bodies :
      input = ProtoText(h, ps, b) =>
        /\ last.returned
        /\ (\A i \in DOMAIN ps : IsParam(ps[i])) =>
             /\ last.kind = "extern" =>
                  /\ last.v = ProtoOf(ps)
                  /\ last.CurTok = BodyTok(b)
                  /\ last.errs1 = last.errs0
             /\ (last.kind = "def" /\ b \in {<<"1">>, <<"x", "+", "y">>}) =>
                  /\ last.v = FunctionAST(ProtoOf(ps), BodyAST(b))
                  /\ last.errs1 = last.errs0
        /\ (\E i \in DOMAIN ps : ~IsParam(ps[i])) =>
             /\ last.v = None
             /\ last.errs1 = last.errs0 + 1
             /\ errs[last.errs1].msg = "Expected ')' in prototype"

C10_Witness ==
  /\ input = <<"d", "e", "f", " ", "f", "(", "x", " ", "y", " ", ")", "x", "+", "y">>
  /\ FirstForm
  /\ last.v = FunctionAST(PrototypeAST("f", <<"x", "y">>), Bin("+", Var("x"), Var("y")))
  /\ pc = "done"

\* C11: parentheses are transparent.  For ( a ) ParsePrimary returns the
\* tree of a, and for ( a op1 b ) op2 c with both operators in the precedence
\* table ParseExpression returns Binary(op2, Binary(op1, a, b), c), with both
\* parentheses consumed and no node standing for them.
C11_ParenthesesAreTransparent ==
  (FirstForm /\ input \in ParenInputs) =>
    /\ last.returned
    /\ \A a \in Operands :
         input = <<"(">> \o a \o <<")">> =>
           /\ last.v = TopLevel(OperandAST(a))
           /\ last.CurTok = Token.tok_eof
    /\ \A a \in Operands, b \in Operands, c \in Operands,
          op1 \in DOMAIN BinopPrecedence, op2 \in DOMAIN BinopPrecedence :
         input = <<"(">> \o a \o <<op1>> \o b \o <<")">> \o <<op2>> \o c =>
           /\ last.v = TopLevel(Bin(op2, Bin(op1, OperandAST(a), OperandAST(b)),
                                    OperandAST(c)))
           /\ last.CurTok = Token.tok_eof

\* C12: once a parse function has reported a syntax error, no token is
\* consumed until control is back in the Handle* routine: every error of a
\* form was reported with as many tokens read as when the form's parse
\* returned.
C12_NoTokenConsumedAfterError ==
  last.kind # "none" =>
    \A i \in (last.errs0 + 1)..last.errs1 : errs[i].ntok = last.toks1

\* C13: every BinaryExpression node has as operator a one-character token
\* that is a key of the precedence table with a positive precedence; a token
\* that is no such key (keyword, identifier, number, end of input, or an
\* unlisted character like '/') is not consumed by ParseBinOpRHS, which
\* returns its left operand unchanged with that token still current.
RECURSIVE BinaryOps(_)
BinaryOps(v) ==
  CASE v.type = "BinaryExprAST" -> {v.op} \cup BinaryOps(v.lhs) \cup BinaryOps(v.rhs)
    [] v.type = "CallExprAST" -> UNION {BinaryOps(v.args[i]) : i \in DOMAIN v.args}
    [] v.type = "FunctionAST" -> BinaryOps(v.body)
    [] OTHER -> {}

IsBinop(tok) ==
  /\ DOMAIN tok = {"chr"}
  /\ tok.chr \in DOMAIN BinopPrecedence
  /\ BinopPrecedence[tok.chr] > 0

\* The token the lexer makes of what follows the operand in NoBinopInputs.
NoBinopTok(t) ==
  CASE t = <<>> -> Token.tok_eof
    [] t # <<>> /\ t[1] # " " -> ChrTok(t[1])
    [] Len(t) >= 2 /\ t[1] = " " /\ t[2] = "x" -> Token.tok_identifier
    [] Len(t) >= 2 /\ t[1] = " " /\ t[2] = "1" -> Token.tok_number
    [] Len(t) >= 2 /\ t[1] = " " /\ t[2] = "d" -> Token.tok_def
    [] Len(t) >= 2 /\ t[1] = " " /\ t[2] = "e" -> Token.tok_extern

C13_OperatorsAreTableKeys ==
  (last.kind # "none" /\ last.returned) =>
    /\ \A op \in BinaryOps(last.v) : IsBinop(op)
    /\ (FirstForm /\ last.kind = "expr") =>
         \A a \in Operands, t \in NoBinopTails :
           input = a \o t =>
             /\ last.v = TopLevel(OperandAST(a))
             /\ last.CurTok = NoBinopTok(t)
             /\ last.toks1 = 2
             /\ last.errs1 = last.errs0

C13_Witness ==
  /\ input = <<"2", ".", "5", "/", "x">>
  /\ FirstForm
  /\ last.v = TopLevel(Num(25, 1))
  /\ last.CurTok = ChrTok("/")
  /\ last.toks1 = 2
  /\ pc = "loop"

\* C14: every name or value stored in an AST node equals the payload of the
\* identifier or number token at the node's own position: the payloads of a
\* returned tree, in source order, are taken in order from the payloads of
\* the identifier and number tokens the parse consumed, and are exactly those
\* when the parse reported no error.
IdPayload(name) == [id |-> name]
NumPayload(val) == [num |-> val]

RECURSIVE Payloads(_)
Payloads(v) ==
  CASE v.type = "NumberExprAST" -> <<NumPayload(v.val)>>
    [] v.type = "VariableExprAST" -> <<IdPayload(v.name)>>
    [] v.type = "BinaryExprAST" -> Payloads(v.lhs) \o Payloads(v.rhs)
    [] v.type = "CallExprAST" ->
         <<IdPayload(v.callee)>> \o Flatten([i \in DOMAIN v.args |-> Payloads(v.args[i])])
    [] v.type = "PrototypeAST" ->
         IF v.name = "" /\ v.args = <<>> THEN <<>>
         ELSE <<IdPayload(v.name)>> \o [i \in DOMAIN v.args |-> IdPayload(v.args[i])]
    [] v.type = "FunctionAST" -> Payloads(v.proto) \o Payloads(v.body)
    [] OTHER -> <<>>

\* The payloads of the identifier and number tokens toks[from..to].
RECURSIVE TokenPayloads(_, _)
TokenPayloads(from, to) ==
  IF from > to THEN <<>>
  ELSE (CASE toks[from].tok = Token.tok_identifier -> <<IdPayload(toks[from].IdentifierStr)>>
          [] toks[from].tok = Token.tok_number -> <<NumPayload(toks[from].NumVal)>>
          [] OTHER -> <<>>)
       \o TokenPayloads(from + 1, to)

RECURSIVE IsSubseq(_, _)
IsSubseq(s, t) ==
  IF s = <<>> THEN TRUE
  ELSE IF t = <<>> THEN FALSE
  ELSE IF Head(s) = Head(t) THEN IsSubseq(Tail(s), Tail(t))
  ELSE IsSubseq(s, Tail(t))

C14_PayloadsAreTheTokensOwn ==
  (last.kind # "none" /\ last.returned /\ Truthy(last.v)) =>
    /\ IsSubseq(Payloads(last.v), TokenPayloads(last.toks0, last.toks1 - 1))
    /\ last.errs1 = last.errs0 =>
         Payloads(last.v) = TokenPayloads(last.toks0, last.toks1 - 1)

C14_Witness ==
  /\ input = <<"d", "e", "f", " ", "f", "(", "x", " ", "y", " ", ")", "x", "+", "y">>
  /\ last.kind = "def" /\ last.returned
  /\ Payloads(last.v) = <<IdPayload("f"), IdPayload("x"), IdPayload("y"),
                          IdPayload("x"), IdPayload("y")>>
  /\ TokenPayloads(last.toks0, last.toks1 - 1) = Payloads(last.v)
  /\ IdentifierStr = "y"

\* C15: the identifier branch of gettok consumes the maximal run of letters
\* and digits that starts with a letter and classifies the whole run: exactly
\* "def" is the def token, exactly "extern" the extern token, any other run
\* an identifier token whose IdentifierStr is the run; the character that
\* ends the run is read but kept in LastChar, and the next token starts
\* with it.
Classified(w) ==
  IF w = "def" THEN Token.tok_def
  ELSE IF w = "extern" THEN Token.tok_extern
  ELSE Token.tok_identifier

TokenAfterWord(t) ==
  IF t = <<>> THEN Token.tok_eof
  ELSE IF t[1] \in Whitespace
    THEN (IF Len(t) = 1 THEN Token.tok_eof ELSE Token.tok_identifier)
  ELSE ChrTok(t[1])

C15_IdentifierRunIsMaximal ==
  \A wd \in Words, t \in WordTails :
    (input = wd.s \o t /\ Len(toks) >= 1) =>
      /\ toks[1].tok = Classified(wd.w)
      /\ toks[1].IdentifierStr = wd.w
      /\ toks[1].nread = Len(wd.s) + 1
      /\ Len(toks) = 1 => LastChar = (IF t = <<>> THEN "" ELSE t[1])
      /\ Len(toks) >= 2 => toks[2].tok = TokenAfterWord(t)

C15_Witness ==
  /\ input = <<"d", "e", "f", "1", "+", "x">>
  /\ Len(toks) = 2
  /\ toks[1].tok = Token.tok_identifier /\ toks[1].IdentifierStr = "def1"
  /\ toks[2].tok = ChrTok("+")

\* C16: the end of the input is absorbing for the lexer.  Once gettok has
\* returned the end-of-input token, every later call returns it too and
\* reads no further character.
C16_EofIsAbsorbing ==
  \A i \in DOMAIN toks : \A j \in DOMAIN toks :
    (i < j /\ toks[i].tok = Token.tok_eof) =>
      /\ toks[j].tok = Token.tok_eof
      /\ toks[j].nread = toks[i].nread
      /\ nread = toks[i].nread

C16_Witness ==
  /\ input = <<"1", "+">>
  /\ Len(toks) = 4
  /\ toks[3].tok = Token.tok_eof /\ toks[4].tok = Token.tok_eof
  /\ toks[4].nread = toks[3].nread
  /\ pc = "done"

\* C17: one top-level parse reports at most one error: exactly one when it
\* returns the null result and none when it returns a node, so that no
\* success notice is printed for a form in which an error was reported.
C17_OneErrorPerFailedForm ==
  (last.kind # "none" /\ last.returned) =>
    /\ Truthy(last.v) => last.errs1 = last.errs0
    /\ ~Truthy(last.v) => last.errs1 = last.errs0 + 1
    /\ last.errs1 > last.errs0 =>
         \A i \in (last.stderr0 + 1)..Len(stderr) : stderr[i] \notin Notices

\* C18: for every successfully parsed expression, the leaves and operators of
\* the tree, read in order, are the operand and operator tokens the parse
\* consumed: none reordered, dropped or duplicated.
OperandTok(tok) == [operand |-> tok]
OperatorTok(tok) == [operator |-> tok]

RECURSIVE InOrder(_)
InOrder(v) ==
  CASE v.type = "NumberExprAST" -> <<OperandTok(NumPayload(v.val))>>
    [] v.type = "VariableExprAST" -> <<OperandTok(IdPayload(v.name))>>
    [] v.type = "BinaryExprAST" -> InOrder(v.lhs) \o <<OperatorTok(v.op)>> \o InOrder(v.rhs)
    [] v.type = "CallExprAST" ->
         <<OperandTok(IdPayload(v.callee))>>
         \o Flatten([i \in DOMAIN v.args |-> InOrder(v.args[i])])
    [] v.type = "FunctionAST" -> InOrder(v.body)
    [] OTHER -> <<>>

\* The operand and operator tokens among toks[from..to]: parentheses and the
\* commas of argument lists are left out.
RECURSIVE ExprTokens(_, _)
ExprTokens(from, to) ==
  IF from > to THEN <<>>
  ELSE (CASE toks[from].tok = Token.tok_identifier ->
               <<OperandTok(IdPayload(toks[from].IdentifierStr))>>
          [] toks[from].tok = Token.tok_number ->
               <<OperandTok(NumPayload(toks[from].NumVal))>>
          [] toks[from].tok \in {ChrTok("("), ChrTok(")"), ChrTok(",")} -> <<>>
          [] OTHER -> <<OperatorTok(toks[from].tok)>>)
       \o ExprTokens(from + 1, to)

C18_TreeKeepsTokenOrder ==
  (last.kind = "expr" /\ last.returned /\ Truthy(last.v)) =>
    InOrder(last.v) = ExprTokens(last.toks0, last.toks1 - 1)

=============================================================================
